---- MODULE Spec2Model ----
(***************************************************************************)
(* Model of the datagram framing layer of src/src/net/packet.cc: Packet    *)
(* (one wire fragment), FragmentedFrame (splitting of an outgoing frame,   *)
(* slot-array reassembly of an incoming one) and their wire encoding.      *)
(*                                                                         *)
(* A byte is a number in 0..255, a string or buffer is a sequence of       *)
(* bytes.  Objects that may not exist yet (the two frames) are sequences   *)
(* of length 0 or 1.  Every public operation is one action; what it threw  *)
(* and what it returned is kept in the variable last.                      *)
(***************************************************************************)
EXTENDS Integers, Sequences, FiniteSets, TLC

(* ------------------------------ bounds -------------------------------- *)

\* longest frame buffer handed to outgoing construction
MaxLen == 3
\* largest value of the payload cap PacketUtils::MAXIMUM_PAYLOAD
MaxCap == 2

(* --------------------------- integer widths --------------------------- *)

\* uint16_t holds values modulo Uint16.  The 32-bit values of the model stay
\* below 2^31, so a uint32_t holds each of them unchanged.
Uint16 == 65536

(* ------------------------------ inputs -------------------------------- *)

\* the frame buffers: of every length 0..MaxLen, byte i being 64 + i, so that
\* no two bytes of a buffer are equal and a misplaced byte shows
FrameBuffers == { [ i \in 1..n |-> 64 + i ] : n \in 0..MaxLen }
\* the payload of a fragment that no frame buffer produces (a foreign fragment)
ForeignPayload == <<90>>
\* connection ids and frame numbers in use
ConnectionIds == {7, 8}
FrameNos == {70000, 70001}
\* values of time_to_next_frame: a 16-bit one and one that needs 32 bits
TimesToNext == {300, 70000}

Min(a, b) == IF a < b THEN a ELSE b

(* ------------------------------ Packet -------------------------------- *)

\* Packet::Packet(): an empty, invalid packet
EmptyPacket ==
  [ valid_ |-> FALSE, connection_id_ |-> 0, frame_no_ |-> 0, fragment_no_ |-> 0,
    fragments_in_this_frame_ |-> 0, time_to_next_ |-> 0, payload_ |-> <<>> ]

\* mutant of PacketOutgoing: first_byte is fragment_no, not scaled by the cap
PacketOutgoing_unscaled(whole_frame, connection_id, frame_no, fragment_no, time_to_next, cap) ==
  LET first_byte == fragment_no
      length     == Min(Len(whole_frame) - first_byte, cap)
  IN  [ asserts |-> /\ whole_frame # <<>>
                    /\ first_byte < Len(whole_frame)
                    /\ first_byte + length <= Len(whole_frame),
        packet  |-> [ valid_ |-> TRUE,
                      connection_id_ |-> connection_id,
                      frame_no_ |-> frame_no,
                      fragment_no_ |-> fragment_no,
                      fragments_in_this_frame_ |-> 0,
                      time_to_next_ |-> time_to_next % Uint16,
                      payload_ |-> SubSeq(whole_frame, first_byte + 1, first_byte + length) ],
        next_fragment_start |-> first_byte + length ]

\* Packet::Packet( whole_frame, connection_id, frame_no, fragment_no,
\*                 time_to_next, next_fragment_start ) with payload cap `cap`.
\* asserts: the three assert() of the constructor all hold.  The splitting
\* loop, its only caller, calls it with bytes left to take.
PacketOutgoing(whole_frame, connection_id, frame_no, fragment_no, time_to_next, cap) ==
  LET first_byte == cap * fragment_no
      length     == Min(Len(whole_frame) - first_byte, cap)
  IN  [ asserts |-> /\ whole_frame # <<>>
                    /\ first_byte < Len(whole_frame)
                    /\ first_byte + length <= Len(whole_frame),
        packet  |-> [ valid_ |-> TRUE,
                      connection_id_ |-> connection_id,
                      frame_no_ |-> frame_no,
                      fragment_no_ |-> fragment_no,
                      fragments_in_this_frame_ |-> 0,
                      time_to_next_ |-> time_to_next % Uint16,
                      payload_ |-> SubSeq(whole_frame, first_byte + 1, first_byte + length) ],
        next_fragment_start |-> first_byte + length ]

\* Packet::set_time_to_next( val ): a 32-bit value into the 32-bit field
set_time_to_next(packet, val) ==
  [ packet EXCEPT !.time_to_next_ = val ]

\* Packet::set_fragments_in_this_frame( x ): the assignment
set_fragments_in_this_frame(packet, x) ==
  [ packet EXCEPT !.fragments_in_this_frame_ = x % Uint16 ]

\* Packet::set_fragments_in_this_frame( x ): its assert( fragment_no_ < fragments_in_this_frame_ )
set_fragments_assert(packet) ==
  packet.fragment_no_ < packet.fragments_in_this_frame_

(* ---------------------------- Header codec ---------------------------- *)

\* PacketUtils::put_header_field( const uint16_t n ): two bytes, little-endian
put_header_field16(n) ==
  << n % 256, (n \div 256) % 256 >>

\* mutant of put_header_field32: the four bytes in big-endian order
put_header_field32_big_endian(n) ==
  << (n \div 16777216) % 256, (n \div 65536) % 256, (n \div 256) % 256, n % 256 >>

\* PacketUtils::put_header_field( const uint32_t n ): four bytes, little-endian
put_header_field32(n) ==
  << n % 256, (n \div 256) % 256, (n \div 65536) % 256, (n \div 16777216) % 256 >>

\* Chunk::le16(): the two bytes read as a little-endian integer
le16(b) == b[1] + 256 * b[2]

\* Chunk::le32(): the four bytes read as a little-endian integer
le32(b) == b[1] + 256 * b[2] + 65536 * b[3] + 16777216 * b[4]

\* Chunk::operator()( offset, length ): the bounds check of the byte cursor
ChunkInRange(str, offset, length) == offset + length <= Len(str)

\* Chunk::operator()( offset, length ): the bytes [offset, offset + length)
ChunkSub(str, offset, length) == SubSeq(str, offset + 1, offset + length)

\* Chunk::operator()( offset ): the bytes from offset to the end
ChunkRest(str, offset) == SubSeq(str, offset + 1, Len(str))

(* ------------------------------ errors -------------------------------- *)

NoError == "none"
\* the process ended in a failed assert()
Aborted == "assertion failed"
\* the process ended in a memory fault
Crashed == "memory fault"
\* thrown by the byte cursor
ChunkError == "attempt to read past end of chunk"

\* the error kinds of the specification, by the place that throws
ErrorKind(err) ==
  CASE err \in { ChunkError,
                 "invalid packet: fragment_no_ >= fragments_in_this_frame",
                 "invalid packet: empty payload" } -> "MalformedPacket"
    [] err \in { "invalid packet, connection_id mismatch",
                 "invalid packet, fragments_in_this_frame mismatch",
                 "invalid packet, frame_no mismatch",
                 "invalid packet, fragment_no >= fragments_in_this_frame" } -> "ProtocolMismatch"
    [] err \in { "attempt to send unfinished FragmentedFrame",
                 "attempt to build frame from unfinished FragmentedFrame" } -> "IncompleteFrame"
    [] OTHER -> err

(* ----------------------- Packet: wire encoding ------------------------ *)

\* mutant of PacketIncoming: fragment_no_ > fragments_in_this_frame_ for >=
PacketIncoming_off_by_one(str) ==
  IF ~ ( /\ ChunkInRange(str, 0, 2) /\ ChunkInRange(str, 2, 4) /\ ChunkInRange(str, 6, 2)
         /\ ChunkInRange(str, 8, 2) /\ ChunkInRange(str, 10, 4) /\ ChunkInRange(str, 14, 0) )
  THEN [ err |-> ChunkError, packet |-> EmptyPacket ]
  ELSE LET p == [ valid_ |-> TRUE,
                  connection_id_ |-> le16(ChunkSub(str, 0, 2)),
                  frame_no_ |-> le32(ChunkSub(str, 2, 4)),
                  fragment_no_ |-> le16(ChunkSub(str, 6, 2)),
                  fragments_in_this_frame_ |-> le16(ChunkSub(str, 8, 2)),
                  time_to_next_ |-> le32(ChunkSub(str, 10, 4)),
                  payload_ |-> ChunkRest(str, 14) ]
       IN  IF p.fragment_no_ > p.fragments_in_this_frame_
           THEN [ err |-> "invalid packet: fragment_no_ >= fragments_in_this_frame",
                  packet |-> EmptyPacket ]
           ELSE IF p.payload_ = <<>>
           THEN [ err |-> "invalid packet: empty payload", packet |-> EmptyPacket ]
           ELSE [ err |-> NoError, packet |-> p ]

\* Packet::Packet( const Chunk & str ): the incoming packet parsed from a datagram
PacketIncoming(str) ==
  IF ~ ( /\ ChunkInRange(str, 0, 2) /\ ChunkInRange(str, 2, 4) /\ ChunkInRange(str, 6, 2)
         /\ ChunkInRange(str, 8, 2) /\ ChunkInRange(str, 10, 4) /\ ChunkInRange(str, 14, 0) )
  THEN [ err |-> ChunkError, packet |-> EmptyPacket ]
  ELSE LET p == [ valid_ |-> TRUE,
                  connection_id_ |-> le16(ChunkSub(str, 0, 2)),
                  frame_no_ |-> le32(ChunkSub(str, 2, 4)),
                  fragment_no_ |-> le16(ChunkSub(str, 6, 2)),
                  fragments_in_this_frame_ |-> le16(ChunkSub(str, 8, 2)),
                  time_to_next_ |-> le32(ChunkSub(str, 10, 4)),
                  payload_ |-> ChunkRest(str, 14) ]
       IN  IF p.fragment_no_ >= p.fragments_in_this_frame_
           THEN [ err |-> "invalid packet: fragment_no_ >= fragments_in_this_frame",
                  packet |-> EmptyPacket ]
           ELSE IF p.payload_ = <<>>
           THEN [ err |-> "invalid packet: empty payload", packet |-> EmptyPacket ]
           ELSE [ err |-> NoError, packet |-> p ]

\* Packet::to_string(): its assert( fragments_in_this_frame_ > 0 )
to_string_assert(packet) == packet.fragments_in_this_frame_ > 0

\* Packet::to_string(): the five header fields, then the payload
to_string(packet) ==
  put_header_field16(packet.connection_id_)
    \o put_header_field32(packet.frame_no_)
    \o put_header_field16(packet.fragment_no_)
    \o put_header_field16(packet.fragments_in_this_frame_)
    \o put_header_field32(packet.time_to_next_)
    \o packet.payload_

(* ----------------------------- AckPacket ------------------------------ *)

\* AckPacket::AckPacket( connection_id, frame_no, fragment_no, avg_delay )
AckPacketNew(connection_id, frame_no, fragment_no, avg_delay) ==
  [ connection_id_ |-> connection_id, frame_no_ |-> frame_no,
    fragment_no_ |-> fragment_no, avg_delay_ |-> avg_delay ]

\* no AckPacket: what a call that builds none leaves in last.ack
NoAck == AckPacketNew(0, 0, 0, 0)

\* AckPacket::AckPacket( const Chunk & str ): the acknowledgement parsed from
\* a datagram; it reads its four fields and checks nothing else
AckPacketIncoming(str) ==
  IF ~ ( /\ ChunkInRange(str, 0, 2) /\ ChunkInRange(str, 2, 4)
         /\ ChunkInRange(str, 6, 2) /\ ChunkInRange(str, 8, 4) )
  THEN [ err |-> ChunkError, ack |-> NoAck ]
  ELSE [ err |-> NoError,
         ack |-> [ connection_id_ |-> le16(ChunkSub(str, 0, 2)),
                   frame_no_ |-> le32(ChunkSub(str, 2, 4)),
                   fragment_no_ |-> le16(ChunkSub(str, 6, 2)),
                   avg_delay_ |-> le32(ChunkSub(str, 8, 4)) ] ]

\* mutant of AckPacket_to_string: avg_delay_ written as a 16-bit field
AckPacket_to_string_short(ack) ==
  put_header_field16(ack.connection_id_)
    \o put_header_field32(ack.frame_no_)
    \o put_header_field16(ack.fragment_no_)
    \o put_header_field16(ack.avg_delay_)

\* AckPacket::to_string(): the four header fields
AckPacket_to_string(ack) ==
  put_header_field16(ack.connection_id_)
    \o put_header_field32(ack.frame_no_)
    \o put_header_field16(ack.fragment_no_)
    \o put_header_field32(ack.avg_delay_)

(* -------------------------- FragmentedFrame --------------------------- *)

RECURSIVE split_loop(_, _, _, _, _, _, _)
\* the for loop of the outgoing constructor: one Packet per iteration, the
\* uint16_t counter fragment_no incremented after each
split_loop(fragments, fragment_no, next_fragment_start, whole_frame, connection_id, frame_no, cap) ==
  IF next_fragment_start < Len(whole_frame)
  THEN LET built == PacketOutgoing(whole_frame, connection_id, frame_no, fragment_no, 0, cap)
           rest  == split_loop(Append(fragments, built.packet), (fragment_no + 1) % Uint16,
                               built.next_fragment_start,
                               whole_frame, connection_id, frame_no, cap)
       IN  [ asserts |-> built.asserts /\ rest.asserts, fragments_ |-> rest.fragments_ ]
  ELSE [ asserts |-> TRUE, fragments_ |-> fragments ]

\* mutant of set_time_on_back: the hint is set on every fragment
set_time_on_all(fragments, time_to_next_frame) ==
  [ i \in 1..Len(fragments) |-> set_time_to_next(fragments[i], time_to_next_frame) ]

\* fragments_.back().set_time_to_next( time_to_next_frame ), fragments_ not empty
set_time_on_back(fragments, time_to_next_frame) ==
  [ fragments EXCEPT ![Len(fragments)] = set_time_to_next(@, time_to_next_frame) ]

\* FragmentedFrame::FragmentedFrame( connection_id, frame_no, time_to_next_frame,
\*                                   whole_frame ), whole_frame not empty
FrameOutgoing(connection_id, frame_no, time_to_next_frame, whole_frame, cap) ==
  LET split  == split_loop(<<>>, 0, 0, whole_frame, connection_id, frame_no, cap)
      timed  == set_time_on_back(split.fragments_, time_to_next_frame)
      count  == Len(timed) % Uint16
      marked == [ i \in 1..Len(timed) |-> set_fragments_in_this_frame(timed[i], count) ]
  IN  [ asserts |-> split.asserts /\ \A i \in 1..Len(marked) : set_fragments_assert(marked[i]),
        frame   |-> [ connection_id_ |-> connection_id,
                      frame_no_ |-> frame_no,
                      fragments_in_this_frame_ |-> count,
                      fragments_ |-> marked,
                      remaining_fragments_ |-> 0 ] ]

\* the outgoing constructor on an empty whole_frame, when fragments_.back() of
\* the empty vector does not fault: no fragment, fragments_in_this_frame_ 0
FrameOutgoingEmpty(connection_id, frame_no) ==
  [ connection_id_ |-> connection_id, frame_no_ |-> frame_no,
    fragments_in_this_frame_ |-> 0, fragments_ |-> <<>>, remaining_fragments_ |-> 0 ]

\* mutant of sanity_check: the connection_id comparison is missing
sanity_check_no_connection_id(f, packet) ==
  IF packet.fragments_in_this_frame_ # f.fragments_in_this_frame_
  THEN "invalid packet, fragments_in_this_frame mismatch"
  ELSE IF packet.frame_no_ # f.frame_no_
  THEN "invalid packet, frame_no mismatch"
  ELSE IF packet.fragment_no_ >= f.fragments_in_this_frame_
  THEN "invalid packet, fragment_no >= fragments_in_this_frame"
  ELSE NoError

\* mutant of sanity_check: the frame_no comparison is missing
sanity_check_no_frame_no(f, packet) ==
  IF packet.connection_id_ # f.connection_id_
  THEN "invalid packet, connection_id mismatch"
  ELSE IF packet.fragments_in_this_frame_ # f.fragments_in_this_frame_
  THEN "invalid packet, fragments_in_this_frame mismatch"
  ELSE IF packet.fragment_no_ >= f.fragments_in_this_frame_
  THEN "invalid packet, fragment_no >= fragments_in_this_frame"
  ELSE NoError

\* FragmentedFrame::sanity_check( packet ): what it throws, NoError when nothing
sanity_check(f, packet) ==
  IF packet.connection_id_ # f.connection_id_
  THEN "invalid packet, connection_id mismatch"
  ELSE IF packet.fragments_in_this_frame_ # f.fragments_in_this_frame_
  THEN "invalid packet, fragments_in_this_frame mismatch"
  ELSE IF packet.frame_no_ # f.frame_no_
  THEN "invalid packet, frame_no mismatch"
  ELSE IF packet.fragment_no_ >= f.fragments_in_this_frame_
  THEN "invalid packet, fragment_no >= fragments_in_this_frame"
  ELSE NoError

\* mutant of store_packet: the fragment goes to the first free slot, the
\* slots filling in the order of arrival
store_packet_in_arrival_order(f, packet) ==
  LET free == { i \in 1..Len(f.fragments_) : ~ f.fragments_[i].valid_ }
  IN  IF free = {} THEN f
      ELSE [ f EXCEPT !.remaining_fragments_ = @ - 1,
                      !.fragments_[CHOOSE i \in free : \A j \in free : i <= j] = packet ]

\* mutant of store_packet: the fragment is counted but not stored
store_packet_not_stored(f, packet) ==
  IF ~ f.fragments_[packet.fragment_no_ + 1].valid_
  THEN [ f EXCEPT !.remaining_fragments_ = @ - 1 ]
  ELSE f

\* mutant of store_packet: the test of the slot's validity is missing
store_packet_unconditional(f, packet) ==
  [ f EXCEPT !.remaining_fragments_ = @ - 1,
             !.fragments_[packet.fragment_no_ + 1] = packet ]

\* mutant of store_packet: the slot is written outside the test
store_packet_overwrite(f, packet) ==
  IF ~ f.fragments_[packet.fragment_no_ + 1].valid_
  THEN [ f EXCEPT !.remaining_fragments_ = @ - 1,
                  !.fragments_[packet.fragment_no_ + 1] = packet ]
  ELSE [ f EXCEPT !.fragments_[packet.fragment_no_ + 1] = packet ]

\* the body of add_packet after the sanity check: the slot is written and
\* remaining_fragments_ decremented only when the slot is not valid
store_packet(f, packet) ==
  IF ~ f.fragments_[packet.fragment_no_ + 1].valid_
  THEN [ f EXCEPT !.remaining_fragments_ = @ - 1,
                  !.fragments_[packet.fragment_no_ + 1] = packet ]
  ELSE f

\* FragmentedFrame::add_packet( packet )
add_packet(f, packet) ==
  LET err == sanity_check(f, packet)
  IN  IF err # NoError
      THEN [ err |-> err, frame |-> f ]
      ELSE [ err |-> NoError, frame |-> store_packet(f, packet) ]

\* FragmentedFrame::FragmentedFrame( connection_id, packet ): the incoming frame
FrameIncoming(connection_id, packet) ==
  LET f == [ connection_id_ |-> connection_id,
             frame_no_ |-> packet.frame_no_,
             fragments_in_this_frame_ |-> packet.fragments_in_this_frame_,
             fragments_ |-> [ i \in 1..packet.fragments_in_this_frame_ |-> EmptyPacket ],
             remaining_fragments_ |-> packet.fragments_in_this_frame_ ]
      err == sanity_check(f, packet)
  IN  IF err # NoError THEN [ err |-> err, frame |-> f ] ELSE add_packet(f, packet)

\* FragmentedFrame::complete()
complete(f) == f.remaining_fragments_ = 0

RECURSIVE append_payloads(_, _)
\* the loop of frame(): every fragment's payload appended, in slot order
append_payloads(fragments, i) ==
  IF i > Len(fragments) THEN <<>>
  ELSE fragments[i].payload_ \o append_payloads(fragments, i + 1)

\* mutant of frame: the completeness check is missing
frame_unchecked(f) ==
  [ err |-> NoError, ret |-> append_payloads(f.fragments_, 1) ]

\* FragmentedFrame::frame()
frame(f) ==
  IF ~ complete(f)
  THEN [ err |-> "attempt to build frame from unfinished FragmentedFrame", ret |-> <<>> ]
  ELSE [ err |-> NoError, ret |-> append_payloads(f.fragments_, 1) ]

RECURSIVE append_payloads_skipping(_, _)
\* mutant of append_valid_payloads: an invalid fragment is skipped (continue
\* for break)
append_payloads_skipping(fragments, i) ==
  IF i > Len(fragments) THEN <<>>
  ELSE IF ~ fragments[i].valid_ THEN append_payloads_skipping(fragments, i + 1)
  ELSE fragments[i].payload_ \o append_payloads_skipping(fragments, i + 1)

RECURSIVE append_valid_payloads(_, _)
\* the loop of partial_frame(): it breaks at the first fragment that is not valid
append_valid_payloads(fragments, i) ==
  IF i > Len(fragments) THEN <<>>
  ELSE IF ~ fragments[i].valid_ THEN <<>>
  ELSE fragments[i].payload_ \o append_valid_payloads(fragments, i + 1)

\* FragmentedFrame::partial_frame()
partial_frame(f) == append_valid_payloads(f.fragments_, 1)

RECURSIVE send_loop_reversed(_, _, _, _)
\* mutant of send_loop: each datagram goes out ahead of the ones before it
send_loop_reversed(fragments, i, asserts_off, sent) ==
  IF i > Len(fragments) THEN [ err |-> NoError, sent |-> sent ]
  ELSE IF ~ asserts_off /\ ~ to_string_assert(fragments[i])
  THEN [ err |-> Aborted, sent |-> sent ]
  ELSE send_loop_reversed(fragments, i + 1, asserts_off, << to_string(fragments[i]) >> \o sent)

RECURSIVE send_loop(_, _, _, _)
\* the loop of send(): socket.send( packet.to_string() ) per fragment; a build
\* with assert() enabled ends at the first packet to_string() rejects
send_loop(fragments, i, asserts_off, sent) ==
  IF i > Len(fragments) THEN [ err |-> NoError, sent |-> sent ]
  ELSE IF ~ asserts_off /\ ~ to_string_assert(fragments[i])
  THEN [ err |-> Aborted, sent |-> sent ]
  ELSE send_loop(fragments, i + 1, asserts_off, Append(sent, to_string(fragments[i])))

\* FragmentedFrame::send( socket ): the datagrams handed to the socket
send(f, asserts_off) ==
  IF Len(f.fragments_) # f.fragments_in_this_frame_
  THEN [ err |-> "attempt to send unfinished FragmentedFrame", sent |-> <<>> ]
  ELSE send_loop(f.fragments_, 1, asserts_off, <<>>)

(* ------------------------------- state -------------------------------- *)

VARIABLES
  ndebug,              \* the build: TRUE when assert() is compiled out (NDEBUG)
  MAXIMUM_PAYLOAD,     \* PacketUtils::MAXIMUM_PAYLOAD, the payload cap
  whole_frame,         \* the buffer the sender frames
  time_to_next_frame,  \* the sender's hint
  out,                 \* the outgoing FragmentedFrame: <<>> until constructed
  inc,                 \* the incoming FragmentedFrame: <<>> until constructed
  fed,                 \* the packets inc has accepted (constructor and add_packet)
  last,                \* the last call: operation, target, arguments, error, results
  split                \* the outgoing constructor followed one loop iteration at a
                       \* time on a long buffer, of which only the size is kept

vars == << ndebug, MAXIMUM_PAYLOAD, whole_frame, time_to_next_frame, out, inc, fed, last, split >>

\* what no call on a frame or a packet changes
build == << ndebug, MAXIMUM_PAYLOAD, whole_frame, time_to_next_frame, split >>

\* no constructor is being followed by iterations
NoSplit ==
  [ pc |-> "none", size |-> 0, fragment_no |-> 0, next_fragment_start |-> 0,
    count |-> 0, back_fragment_no |-> 0, back_first_byte |-> 0, back_length |-> 0,
    highest_fragment_no |-> 0,
    fragments_in_this_frame_ |-> 0, remaining_fragments_ |-> 0,
    err |-> NoError, sent |-> 0 ]

\* the sender's identity
SenderConnectionId == CHOOSE c \in ConnectionIds : \A d \in ConnectionIds : c <= d
SenderFrameNo == CHOOSE n \in FrameNos : \A m \in FrameNos : n <= m

\* a call of operation op on frame `on` that ended with err.  Its arguments:
\* packet, connection_id, buffer, ack.  Its results: packet or ack (of a
\* parse), ret (the bytes returned), sent (the datagrams handed to the socket).
Call(op, on, err) ==
  [ op |-> op, on |-> on, err |-> err,
    packet |-> EmptyPacket, connection_id |-> 0, buffer |-> <<>>,
    ret |-> <<>>, sent |-> <<>>, ack |-> NoAck ]

\* the process runs until an assert() fails or memory faults
Alive == last.err \notin { Aborted, Crashed }

Range(s) == { s[i] : i \in 1..Len(s) }

\* the fragments the sender built
Fragments == IF out = <<>> THEN {} ELSE Range(out[1].fragments_)

\* packets a receiver may be handed besides the sender's own: the same fragment
\* from another connection, of another frame, declaring another fragment count,
\* or carrying another payload and time_to_next in the same slot
Variants(p) ==
  { [ p EXCEPT !.connection_id_ = CHOOSE c \in ConnectionIds : c # p.connection_id_ ],
    [ p EXCEPT !.frame_no_ = CHOOSE n \in FrameNos : n # p.frame_no_ ],
    [ p EXCEPT !.fragments_in_this_frame_ = @ + 1 ],
    [ p EXCEPT !.payload_ = ForeignPayload, !.time_to_next_ = @ + 1 ] }

Pool == Fragments \cup UNION { Variants(p) : p \in Fragments } \cup { EmptyPacket }

Init ==
  /\ ndebug \in BOOLEAN
  /\ MAXIMUM_PAYLOAD \in 1..MaxCap
  /\ whole_frame \in FrameBuffers
  /\ time_to_next_frame \in TimesToNext
  /\ out = <<>>
  /\ inc = <<>>
  /\ fed = {}
  /\ last = Call("none", "none", NoError)
  /\ split = NoSplit

(* ------------------------------ actions ------------------------------- *)

\* FragmentedFrame out( connection_id, frame_no, time_to_next_frame, whole_frame ).
\* On an empty whole_frame the loop builds nothing and fragments_.back() is
\* undefined: the process faults, or goes on with a frame of no fragments.
BuildOutgoing ==
  /\ Alive
  /\ out = <<>>
  /\ IF whole_frame = <<>>
     THEN \/ /\ out' = <<>>
             /\ last' = [ Call("outgoing", "out", Crashed) EXCEPT !.buffer = whole_frame ]
          \/ /\ out' = << FrameOutgoingEmpty(SenderConnectionId, SenderFrameNo) >>
             /\ last' = [ Call("outgoing", "out", NoError) EXCEPT !.buffer = whole_frame ]
     ELSE LET r == FrameOutgoing(SenderConnectionId, SenderFrameNo,
                                 time_to_next_frame, whole_frame, MAXIMUM_PAYLOAD)
          IN  IF ~ r.asserts /\ ~ ndebug
              THEN /\ out' = <<>>
                   /\ last' = [ Call("outgoing", "out", Aborted) EXCEPT !.buffer = whole_frame ]
              ELSE /\ out' = << r.frame >>
                   /\ last' = [ Call("outgoing", "out", NoError) EXCEPT !.buffer = whole_frame ]
  /\ UNCHANGED << build, inc, fed >>

\* FragmentedFrame inc( connection_id, packet ): no frame exists when it throws
NewIncoming(connection_id, packet) ==
  /\ Alive
  /\ inc = <<>>
  /\ LET r == FrameIncoming(connection_id, packet)
     IN  /\ last' = [ Call("incoming", "inc", r.err) EXCEPT
                       !.packet = packet, !.connection_id = connection_id ]
         /\ inc' = IF r.err = NoError THEN << r.frame >> ELSE <<>>
         /\ fed' = IF r.err = NoError THEN { packet } ELSE {}
  /\ UNCHANGED << build, out >>

\* inc.add_packet( packet )
AddPacketIncoming(packet) ==
  /\ Alive
  /\ inc # <<>>
  /\ LET r == add_packet(inc[1], packet)
     IN  /\ last' = [ Call("add_packet", "inc", r.err) EXCEPT !.packet = packet ]
         /\ inc' = << r.frame >>
         /\ fed' = IF r.err = NoError THEN fed \cup { packet } ELSE fed
  /\ UNCHANGED << build, out >>

\* out.add_packet( packet )
AddPacketOutgoing(packet) ==
  /\ Alive
  /\ out # <<>>
  /\ LET r == add_packet(out[1], packet)
     IN  /\ last' = [ Call("add_packet", "out", r.err) EXCEPT !.packet = packet ]
         /\ out' = << r.frame >>
  /\ UNCHANGED << build, inc, fed >>

\* the frame a call is made on
Target(on) == IF on = "out" THEN out ELSE inc

\* f.send( socket ): last.sent is what the socket was handed
Send(on) ==
  /\ Alive
  /\ Target(on) # <<>>
  /\ LET r == send(Target(on)[1], ndebug)
     IN  last' = [ Call("send", on, r.err) EXCEPT !.sent = r.sent ]
  /\ UNCHANGED << build, out, inc, fed >>

\* f.frame()
CallFrame(on) ==
  /\ Alive
  /\ Target(on) # <<>>
  /\ LET r == frame(Target(on)[1])
     IN  last' = [ Call("frame", on, r.err) EXCEPT !.ret = r.ret ]
  /\ UNCHANGED << build, out, inc, fed >>

\* f.partial_frame()
CallPartialFrame(on) ==
  /\ Alive
  /\ Target(on) # <<>>
  /\ last' = [ Call("partial_frame", on, NoError) EXCEPT
                !.ret = partial_frame(Target(on)[1]) ]
  /\ UNCHANGED << build, out, inc, fed >>

Next ==
  \/ BuildOutgoing
  \/ \E c \in ConnectionIds, p \in Pool : NewIncoming(c, p)
  \/ \E p \in Pool : AddPacketIncoming(p)
  \/ \E p \in Pool : AddPacketOutgoing(p)
  \/ \E on \in { "out", "inc" } : Send(on)
  \/ \E on \in { "out", "inc" } : CallFrame(on)
  \/ \E on \in { "out", "inc" } : CallPartialFrame(on)

Spec == Init /\ [][Next]_vars

(* ------------------------ the codec on its own ------------------------ *)

\* header field values put on the wire, some of them wider than one byte
WireConnectionIds == {7, 300}
WireFrameNos == {70000}
WireFragmentNos == {0, 1, 2, 256}
WireFragmentCounts == {0, 1, 2, 257}
WireTimesToNext == {0, 70000}
WirePayloads == { <<>>, <<65>>, <<65, 66>> }

\* the datagrams a receiver is handed: every header over those values followed
\* by a payload, and every prefix of such a datagram
WireBuffers ==
  LET whole == { put_header_field16(c) \o put_header_field32(n) \o put_header_field16(i)
                   \o put_header_field16(k) \o put_header_field32(t) \o payload :
                 c \in WireConnectionIds, n \in WireFrameNos, i \in WireFragmentNos,
                 k \in WireFragmentCounts, t \in WireTimesToNext, payload \in WirePayloads }
  IN  UNION { { SubSeq(b, 1, n) : n \in 0..Len(b) } : b \in whole }

InitCodec ==
  /\ ndebug = FALSE
  /\ MAXIMUM_PAYLOAD = 1
  /\ whole_frame = <<>>
  /\ time_to_next_frame = 0
  /\ out = <<>>
  /\ inc = <<>>
  /\ fed = {}
  /\ last = Call("none", "none", NoError)
  /\ split = NoSplit

\* Packet packet( buffer ): last.packet is the packet, the empty one when it threw
ParsePacket(buffer) ==
  /\ LET r == PacketIncoming(buffer)
     IN  last' = [ Call("parse", "none", r.err) EXCEPT
                   !.buffer = buffer, !.packet = r.packet ]
  /\ UNCHANGED << build, out, inc, fed >>

\* the packets a program holds when it serialises one: built by the outgoing
\* constructor or parsed, so valid, fragment_no_ below
\* fragments_in_this_frame_ and the payload not empty.  The frame numbers and
\* hints have four different bytes, or the largest byte values the model holds.
WirePackets ==
  { p \in [ valid_ : {TRUE}, connection_id_ : WireConnectionIds,
            frame_no_ : { 70000, 16909060 }, fragment_no_ : WireFragmentNos,
            fragments_in_this_frame_ : WireFragmentCounts,
            time_to_next_ : { 0, 67305985, 2147483647 },
            payload_ : WirePayloads \ { <<>> } ] :
      p.fragment_no_ < p.fragments_in_this_frame_ }

\* packet.to_string(): last.ret is the string
PacketToString(packet) ==
  /\ Alive
  /\ IF ~ to_string_assert(packet) /\ ~ ndebug
     THEN last' = [ Call("to_string", "none", Aborted) EXCEPT !.packet = packet ]
     ELSE last' = [ Call("to_string", "none", NoError) EXCEPT
                     !.packet = packet, !.ret = to_string(packet) ]
  /\ UNCHANGED << build, out, inc, fed >>

\* the acknowledgements a receiver builds
WireAcks ==
  { AckPacketNew(c, n, i, d) :
    c \in WireConnectionIds, n \in { 70000, 16909060 },
    i \in WireFragmentNos, d \in { 0, 67305985, 2147483647 } }

\* the datagrams an acknowledgement is parsed from: the serialised
\* acknowledgements, each also cut short and with a trailing byte
AckBuffers ==
  UNION { { SubSeq(AckPacket_to_string(a) \o <<0>>, 1, n) : n \in 0..13 } : a \in WireAcks }

\* ack.to_string(): last.ret is the string
AckToString(ack) ==
  /\ Alive
  /\ last' = [ Call("ack_to_string", "none", NoError) EXCEPT
                !.ack = ack, !.ret = AckPacket_to_string(ack) ]
  /\ UNCHANGED << build, out, inc, fed >>

\* AckPacket ack( buffer ): last.ack is the acknowledgement, none when it threw
AckParse(buffer) ==
  /\ Alive
  /\ LET r == AckPacketIncoming(buffer)
     IN  last' = [ Call("ack_parse", "none", r.err) EXCEPT
                   !.buffer = buffer, !.ack = r.ack ]
  /\ UNCHANGED << build, out, inc, fed >>

NextCodec ==
  \/ \E buffer \in WireBuffers : ParsePacket(buffer)
  \/ \E packet \in WirePackets : PacketToString(packet)
  \/ \E ack \in WireAcks : AckToString(ack)
  \/ \E buffer \in AckBuffers : AckParse(buffer)

SpecCodec == InitCodec /\ [][NextCodec]_vars

(* ------------- the splitting loop, iteration by iteration ------------- *)

\* the longest run of the loop that is followed: past the wrap of the counter
MaxFragments == Uint16 + 2

\* numbers of payload caps a long buffer spans: few, and around the largest
\* number a uint16_t counts
SplitCounts == { 1, MaxLen, Uint16 - 1, Uint16, Uint16 + 1 }

\* the sizes of the buffers: the last fragment full, or of one byte
SplitSizes(cap) == { k * cap : k \in SplitCounts } \cup { (k - 1) * cap + 1 : k \in SplitCounts }

\* Packet::Packet( whole_frame, ..., fragment_no, ..., next_fragment_start )
\* on a buffer of `size` bytes: the three assert(), the payload length and
\* next_fragment_start, all of which depend on the size only
PacketOutgoingBySize(size, fragment_no, cap) ==
  LET first_byte == cap * fragment_no
      length     == Min(size - first_byte, cap)
  IN  [ asserts |-> /\ size # 0
                    /\ first_byte < size
                    /\ first_byte + length <= size,
        first_byte |-> first_byte,
        length |-> length,
        next_fragment_start |-> first_byte + length ]

\* the outgoing constructor entered with a buffer that is not empty:
\* fragments_ is empty, next_fragment_start and fragment_no are 0.  Of
\* fragments_ the state keeps its size (count), the fragment_no_ of its last
\* element, where that element's payload lies in the buffer, and the highest
\* fragment_no_ in it.
InitSplit ==
  /\ ndebug \in BOOLEAN
  /\ MAXIMUM_PAYLOAD \in 1..MaxCap
  /\ whole_frame = <<>>
  /\ time_to_next_frame = 0
  /\ out = <<>>
  /\ inc = <<>>
  /\ fed = {}
  /\ last = Call("none", "none", NoError)
  /\ \E size \in SplitSizes(MAXIMUM_PAYLOAD) :
       split = [ NoSplit EXCEPT !.pc = "loop", !.size = size ]

\* one iteration of the for loop: the condition holds, a Packet is emplaced
\* at the back of fragments_, the uint16_t fragment_no is incremented
SplitIterate ==
  /\ split.pc = "loop"
  /\ split.count < MaxFragments
  /\ split.next_fragment_start < split.size
  /\ LET built == PacketOutgoingBySize(split.size, split.fragment_no, MAXIMUM_PAYLOAD)
     IN  IF ~ built.asserts /\ ~ ndebug
         THEN split' = [ split EXCEPT !.pc = "aborted" ]
         ELSE split' = [ split EXCEPT
                           !.count = @ + 1,
                           !.back_fragment_no = split.fragment_no,
                           !.back_first_byte = built.first_byte,
                           !.back_length = built.length,
                           !.highest_fragment_no =
                              IF split.count = 0 \/ split.fragment_no > @
                              THEN split.fragment_no ELSE @,
                           !.next_fragment_start = built.next_fragment_start,
                           !.fragment_no = (split.fragment_no + 1) % Uint16 ]
  /\ UNCHANGED << ndebug, MAXIMUM_PAYLOAD, whole_frame, time_to_next_frame, out, inc, fed, last >>

\* the loop condition fails: fragments_.back() gets the hint,
\* fragments_in_this_frame_ the size of fragments_, and every packet that
\* value through set_fragments_in_this_frame, whose assert() the first packet
\* with fragment_no_ not below it fails
SplitFinish ==
  /\ split.pc = "loop"
  /\ ~ (split.next_fragment_start < split.size)
  /\ LET fragments_in_this_frame == split.count % Uint16
     IN  IF ~ (split.highest_fragment_no < fragments_in_this_frame) /\ ~ ndebug
         THEN split' = [ split EXCEPT !.pc = "aborted",
                                      !.fragments_in_this_frame_ = fragments_in_this_frame ]
         ELSE split' = [ split EXCEPT !.pc = "done",
                                      !.fragments_in_this_frame_ = fragments_in_this_frame,
                                      !.remaining_fragments_ = 0 ]
  /\ UNCHANGED << ndebug, MAXIMUM_PAYLOAD, whole_frame, time_to_next_frame, out, inc, fed, last >>

\* the frame built
SplitBuilt == split.pc \in { "done", "sent", "received" }

\* send( socket ) on the frame built: the test of fragments_.size() against
\* fragments_in_this_frame_, then one datagram per fragment; every fragment
\* carries the frame's fragments_in_this_frame_, which to_string() asserts
\* to be positive.  sent is the number of datagrams handed to the socket.
SplitSend ==
  /\ split.pc = "done"
  /\ IF split.count # split.fragments_in_this_frame_
     THEN split' = [ split EXCEPT !.pc = "sent",
                                  !.err = "attempt to send unfinished FragmentedFrame" ]
     ELSE IF ~ ndebug /\ ~ (split.fragments_in_this_frame_ > 0)
     THEN split' = [ split EXCEPT !.pc = "sent", !.err = Aborted ]
     ELSE split' = [ split EXCEPT !.pc = "sent", !.sent = split.count ]
  /\ UNCHANGED << ndebug, MAXIMUM_PAYLOAD, whole_frame, time_to_next_frame, out, inc, fed, last >>

\* the fragment built last, as a packet: its payload is back_length bytes of
\* the buffer, here all 0
SplitBack ==
  [ valid_ |-> TRUE, connection_id_ |-> SenderConnectionId, frame_no_ |-> SenderFrameNo,
    fragment_no_ |-> split.back_fragment_no,
    fragments_in_this_frame_ |-> split.fragments_in_this_frame_,
    time_to_next_ |-> time_to_next_frame,
    payload_ |-> [ i \in 1..split.back_length |-> 0 ] ]

\* FragmentedFrame inc( connection_id, packet ), packet being the fragment
\* built last, the first a receiver is handed: what the constructor throws
SplitReceive ==
  /\ split.pc = "done"
  /\ split' = [ split EXCEPT !.pc = "received",
                             !.err = FrameIncoming(SenderConnectionId, SplitBack).err ]
  /\ UNCHANGED << ndebug, MAXIMUM_PAYLOAD, whole_frame, time_to_next_frame, out, inc, fed, last >>

NextSplit ==
  \/ SplitIterate
  \/ SplitFinish
  \/ SplitSend
  \/ SplitReceive

SpecSplit == InitSplit /\ [][NextSplit]_vars

(* ----------------------- vocabulary of the claims --------------------- *)

\* the 16-bit little-endian field at byte offset `offset` of a wire buffer
WireField16(buffer, offset) == buffer[offset + 1] + 256 * buffer[offset + 2]

\* the 32-bit little-endian field at byte offset `offset` of a wire buffer
WireField32(buffer, offset) ==
  buffer[offset + 1] + 256 * buffer[offset + 2]
    + 65536 * buffer[offset + 3] + 16777216 * buffer[offset + 4]

\* the frames that exist
Frames == Range(out) \cup Range(inc)

RECURSIVE Flatten(_)
\* a sequence of byte strings joined into one
Flatten(strings) ==
  IF strings = <<>> THEN <<>> ELSE Head(strings) \o Flatten(Tail(strings))

\* the payloads of slots 0..k-1 of f joined
PayloadsUpTo(f, k) == Flatten([ i \in 1..k |-> f.fragments_[i].payload_ ])

\* the slots of f that hold no valid fragment, as 1-based indices
InvalidSlots(f) == { i \in 1..Len(f.fragments_) : ~ f.fragments_[i].valid_ }

\* the number of valid slots of f before its first invalid one
ValidPrefix(f) ==
  IF InvalidSlots(f) = {} THEN Len(f.fragments_)
  ELSE (CHOOSE i \in InvalidSlots(f) : \A j \in InvalidSlots(f) : i <= j) - 1

CeilDiv(a, b) == (a + b - 1) \div b

\* the sender's fragments, fed whole and alone: what inc accepted so far is
\* exactly the set of fragments of out
AllFragmentsFed == inc # <<>> /\ out # <<>> /\ fed = Fragments

\* the fragment numbers of a collection of packets: the slots it fills
FilledSlots(packets) == { p.fragment_no_ : p \in packets }

\* the number of slots 0, 1, ... a collection fills before the first it misses
FilledPrefix(packets) ==
  CHOOSE k \in 0..Cardinality(packets) :
    /\ \A i \in 0..(k - 1) : i \in FilledSlots(packets)
    /\ k \notin FilledSlots(packets)

\* the ways to take, for each of the slots 0..k-1, one packet of the
\* collection that belongs in that slot
SlotChoices(packets, k) ==
  { g \in [ 0..(k - 1) -> packets ] : \A i \in 0..(k - 1) : g[i].fragment_no_ = i }

\* no two packets of the collection belong in one slot with different payloads
ConflictFree(packets) ==
  \A p, q \in packets : p.fragment_no_ = q.fragment_no_ => p.payload_ = q.payload_

(* ------------------------------- claims ------------------------------- *)

\* C1: split/reassemble round trip.  Once an incoming frame has been created
\* from one of the fragments the outgoing constructor split whole_frame into,
\* and has been given all the others through add_packet, in any order, it is
\* complete and frame() returns whole_frame.
C1_RoundTrip ==
  AllFragmentsFed =>
    /\ complete(inc[1])
    /\ frame(inc[1]).err = NoError
    /\ frame(inc[1]).ret = whole_frame

\* C1 witness: a three-fragment frame reassembled, the call that just
\* returned being add_packet of fragment 0
C1_Witness ==
  /\ AllFragmentsFed
  /\ Len(out[1].fragments_) = 3
  /\ last.op = "add_packet" /\ last.on = "inc" /\ last.err = NoError
  /\ last.packet.fragment_no_ = 0
  /\ frame(inc[1]).ret = whole_frame

\* C2: in every reachable state of every frame, outgoing or incoming,
\* remaining_fragments_ is the number of slots that hold no valid fragment,
\* and so never below 0.
C2_RemainingCountsInvalidSlots ==
  \A f \in Frames :
    /\ f.remaining_fragments_ = Cardinality(InvalidSlots(f))
    /\ f.remaining_fragments_ >= 0

\* C2 witness: an incoming frame of three slots with two filled, just after
\* an add_packet that failed
C2_Witness ==
  /\ inc # <<>>
  /\ Len(inc[1].fragments_) = 3
  /\ inc[1].remaining_fragments_ = 1
  /\ last.op = "add_packet" /\ last.on = "inc" /\ last.err # NoError

\* C3: add_packet with a fragment whose connection_id, frame_no or
\* fragments_in_this_frame differs from the frame's fails with ProtocolMismatch
\* and leaves both frames as they were.
C3_MismatchRejected ==
  [][ ( /\ last'.op = "add_packet"
        /\ LET f == Target(last'.on)[1]
               p == last'.packet
           IN  \/ p.connection_id_ # f.connection_id_
               \/ p.frame_no_ # f.frame_no_
               \/ p.fragments_in_this_frame_ # f.fragments_in_this_frame_ )
      => ( /\ ErrorKind(last'.err) = "ProtocolMismatch"
           /\ out' = out
           /\ inc' = inc ) ]_vars

\* C3 witness: a fragment of another frame_no was just refused by an
\* incoming frame that still misses fragments
C3_Witness ==
  /\ inc # <<>>
  /\ last.op = "add_packet" /\ last.on = "inc"
  /\ last.packet.valid_
  /\ last.packet.connection_id_ = inc[1].connection_id_
  /\ last.packet.fragments_in_this_frame_ = inc[1].fragments_in_this_frame_
  /\ last.packet.frame_no_ # inc[1].frame_no_
  /\ ErrorKind(last.err) = "ProtocolMismatch"
  /\ inc[1].remaining_fragments_ > 0

\* C4: add_packet with a fragment that passes the sanity check and whose slot
\* is already valid raises nothing and changes nothing: the slots,
\* remaining_fragments_, frame() and partial_frame() are as before, whether the
\* fragment is the stored one again or another one for the same slot.
C4_DuplicateIsNoOp ==
  [][ ( /\ last'.op = "add_packet"
        /\ LET f == Target(last'.on)[1]
               p == last'.packet
           IN  /\ sanity_check(f, p) = NoError
               /\ f.fragments_[p.fragment_no_ + 1].valid_ )
      => ( /\ last'.err = NoError
           /\ out' = out
           /\ inc' = inc
           /\ \A on \in { "out", "inc" } :
                Target(on) # <<>> =>
                  /\ Target(on)' # <<>>
                  /\ frame(Target(on)'[1]) = frame(Target(on)[1])
                  /\ partial_frame(Target(on)'[1]) = partial_frame(Target(on)[1]) ) ]_vars

\* C4 witness: an incoming frame was just given, without error, a fragment
\* with another payload for a slot that keeps the fragment stored first
C4_Witness ==
  /\ inc # <<>>
  /\ last.op = "add_packet" /\ last.on = "inc" /\ last.err = NoError
  /\ last.packet.payload_ = ForeignPayload
  /\ inc[1].fragments_[last.packet.fragment_no_ + 1].valid_
  /\ inc[1].fragments_[last.packet.fragment_no_ + 1] \in Fragments

\* C5: partial-prefix law.  For every frame in every reachable state,
\* partial_frame() is the payloads of slots 0..k-1 joined, k being the index
\* of the first invalid slot (the number of slots when none is invalid); it is
\* empty when slot 0 is invalid whatever the later slots hold, and a call of
\* it returns that value and throws nothing.
C5_PartialPrefix ==
  /\ \A f \in Frames :
       /\ partial_frame(f) = PayloadsUpTo(f, ValidPrefix(f))
       /\ (f.fragments_ # <<>> /\ ~ f.fragments_[1].valid_) => partial_frame(f) = <<>>
  /\ last.op = "partial_frame" =>
       /\ last.err = NoError
       /\ last.ret = PayloadsUpTo(Target(last.on)[1], ValidPrefix(Target(last.on)[1]))

\* C5 witness: partial_frame() was called on an incoming frame whose slot 0 is
\* valid, slot 1 invalid and slot 2 valid, and returned the payload of slot 0
C5_Witness ==
  /\ inc # <<>>
  /\ Len(inc[1].fragments_) = 3
  /\ inc[1].fragments_[1].valid_
  /\ ~ inc[1].fragments_[2].valid_
  /\ inc[1].fragments_[3].valid_
  /\ last.op = "partial_frame" /\ last.on = "inc"
  /\ last.ret = inc[1].fragments_[1].payload_

\* C6: a call of frame() on a frame with remaining_fragments_ > 0 fails with
\* IncompleteFrame and returns no byte; on a complete frame it returns the
\* payloads of all slots joined in slot order; neither changes a frame.
C6_FrameNeedsComplete ==
  [][ last'.op = "frame" =>
        LET f == Target(last'.on)[1]
        IN  /\ out' = out
            /\ inc' = inc
            /\ IF f.remaining_fragments_ > 0
               THEN /\ ErrorKind(last'.err) = "IncompleteFrame"
                    /\ last'.ret = <<>>
               ELSE /\ last'.err = NoError
                    /\ last'.ret = PayloadsUpTo(f, Len(f.fragments_)) ]_vars

\* C6 witness: frame() was just refused on an incoming frame that holds one
\* fragment and misses others
C6_Witness ==
  /\ inc # <<>>
  /\ inc[1].remaining_fragments_ > 0
  /\ inc[1].remaining_fragments_ < Len(inc[1].fragments_)
  /\ last.op = "frame" /\ last.on = "inc"
  /\ ErrorKind(last.err) = "IncompleteFrame"

\* C7: outgoing construction from a non-empty whole_frame succeeds and yields
\* ceil(len / cap) fragments, fragment i carrying the bytes
\* [i * cap, min((i + 1) * cap, len)) of whole_frame: cap bytes each but the
\* last, which carries len - (count - 1) * cap bytes, between 1 and cap.
C7_FragmentCount ==
  whole_frame # <<>> =>
    /\ last.op = "outgoing" => (last.err = NoError /\ out # <<>>)
    /\ out # <<>> =>
         LET fragments == out[1].fragments_
             len   == Len(whole_frame)
             cap   == MAXIMUM_PAYLOAD
             count == Len(fragments)
         IN  /\ count = CeilDiv(len, cap)
             /\ \A i \in 0..(count - 1) :
                  fragments[i + 1].payload_ =
                    SubSeq(whole_frame, i * cap + 1, Min((i + 1) * cap, len))
             /\ \A i \in 0..(count - 2) : Len(fragments[i + 1].payload_) = cap
             /\ Len(fragments[count].payload_) = len - (count - 1) * cap
             /\ Len(fragments[count].payload_) \in 1..cap

\* C7 witness: a buffer of three bytes was just split with cap 2 into two
\* fragments, the last one shorter than the cap
C7_Witness ==
  /\ last.op = "outgoing"
  /\ out # <<>>
  /\ Len(whole_frame) = 3 /\ MAXIMUM_PAYLOAD = 2
  /\ Len(out[1].fragments_) = 2
  /\ Len(out[1].fragments_[2].payload_) = 1

\* C8: after outgoing construction with time_to_next_frame = T, the fragment
\* with the highest fragment_no carries time_to_next T, the whole 32-bit
\* value, and every other fragment carries 0; a single fragment carries T.
C8_TimeOnLastFragment ==
  out # <<>> =>
    LET fragments == out[1].fragments_
    IN  \A i \in 1..Len(fragments) :
          /\ fragments[i].fragment_no_ = i - 1
          /\ fragments[i].time_to_next_ =
               IF i = Len(fragments) THEN time_to_next_frame ELSE 0

\* C8 witness: three fragments built with a hint that does not fit 16 bits
C8_Witness ==
  /\ out # <<>>
  /\ last.op = "outgoing"
  /\ Len(out[1].fragments_) = 3
  /\ time_to_next_frame >= Uint16
  /\ out[1].fragments_[3].time_to_next_ = time_to_next_frame

\* C9: send() on a frame that still misses fragments fails with
\* IncompleteFrame and hands the socket nothing.
C9_SendNeedsComplete ==
  (last.op = "send" /\ Target(last.on)[1].remaining_fragments_ > 0) =>
    /\ ErrorKind(last.err) = "IncompleteFrame"
    /\ last.sent = <<>>

\* C9 failing input: send() on an incoming frame of two slots that holds
\* fragment 0 only; the socket was handed a datagram
C9_Reached ==
  /\ last.op = "send" /\ last.on = "inc"
  /\ inc[1].remaining_fragments_ = 1
  /\ Len(inc[1].fragments_) = 2
  /\ last.sent # <<>>

\* C10: the incoming Packet constructor accepts a buffer exactly when it has
\* at least 15 bytes and the fragment_no at offset 6 is below the
\* fragments_in_this_frame at offset 8; it then yields a valid packet whose
\* payload, the bytes from offset 14, is not empty.  Every other buffer fails
\* with MalformedPacket and yields no packet.
C10_ParseAccepts ==
  last.op = "parse" =>
    LET buffer == last.buffer
        accepted == /\ Len(buffer) >= 15
                    /\ WireField16(buffer, 6) < WireField16(buffer, 8)
    IN  IF accepted
        THEN /\ last.err = NoError
             /\ last.packet.valid_
             /\ last.packet.payload_ # <<>>
             /\ last.packet.payload_ = SubSeq(buffer, 15, Len(buffer))
             /\ last.packet.fragment_no_ < last.packet.fragments_in_this_frame_
        ELSE /\ ErrorKind(last.err) = "MalformedPacket"
             /\ ~ last.packet.valid_

\* C10 witness: a buffer of exactly 14 bytes whose header is in order was
\* refused as malformed
C10_Witness ==
  /\ last.op = "parse"
  /\ Len(last.buffer) = 14
  /\ WireField16(last.buffer, 6) < WireField16(last.buffer, 8)
  /\ ErrorKind(last.err) = "MalformedPacket"

\* C11: fragment header round trip.  For every fragment with fragment_no_
\* below fragments_in_this_frame_ and a payload that is not empty, to_string()
\* is 14 header bytes and the payload: connection_id, frame_no, fragment_no,
\* fragments_in_this_frame and time_to_next little-endian at offsets 0, 2, 6,
\* 8 and 10, the payload from offset 14; parsing it yields a fragment equal
\* to it in every field, time_to_next with all its 32 bits.
C11_HeaderRoundTrip ==
  (last.op = "to_string" /\ last.err = NoError) =>
    LET p == last.packet
        bytes == last.ret
    IN  /\ Len(bytes) = 14 + Len(p.payload_)
        /\ \A i \in 1..Len(bytes) : bytes[i] \in 0..255
        /\ WireField16(bytes, 0) = p.connection_id_
        /\ WireField32(bytes, 2) = p.frame_no_
        /\ WireField16(bytes, 6) = p.fragment_no_
        /\ WireField16(bytes, 8) = p.fragments_in_this_frame_
        /\ WireField32(bytes, 10) = p.time_to_next_
        /\ SubSeq(bytes, 15, Len(bytes)) = p.payload_
        /\ PacketIncoming(bytes) = [ err |-> NoError, packet |-> p ]

\* C11 witness: a fragment whose fragment_no and time_to_next need their high
\* bytes was serialised and parses back
C11_Witness ==
  /\ last.op = "to_string" /\ last.err = NoError
  /\ last.packet.fragment_no_ >= 256
  /\ last.packet.time_to_next_ >= 16777216
  /\ last.packet.frame_no_ >= 16777216
  /\ last.packet.payload_ # <<>>
  /\ last.packet.fragment_no_ < last.packet.fragments_in_this_frame_
  /\ PacketIncoming(last.ret).packet = last.packet

\* C12: AckPacket codec.  to_string() of an acknowledgement is 12 bytes:
\* connection_id, frame_no, fragment_no and avg_delay little-endian at offsets
\* 0, 2, 6 and 8; parsing those 12 bytes does not fail and yields the same
\* four values.
C12_AckCodec ==
  /\ last.op = "ack_to_string" =>
       LET a == last.ack
           bytes == last.ret
       IN  /\ last.err = NoError
           /\ Len(bytes) = 12
           /\ \A i \in 1..Len(bytes) : bytes[i] \in 0..255
           /\ WireField16(bytes, 0) = a.connection_id_
           /\ WireField32(bytes, 2) = a.frame_no_
           /\ WireField16(bytes, 6) = a.fragment_no_
           /\ WireField32(bytes, 8) = a.avg_delay_
           /\ AckPacketIncoming(bytes) = [ err |-> NoError, ack |-> a ]
  /\ (last.op = "ack_parse" /\ \E a \in WireAcks : last.buffer = AckPacket_to_string(a)) =>
       /\ last.err = NoError
       /\ AckPacket_to_string(last.ack) = last.buffer

\* C12 witness: the 12 bytes of an acknowledgement whose fields need their
\* high bytes were parsed into that acknowledgement
C12_Witness ==
  /\ last.op = "ack_parse" /\ last.err = NoError
  /\ Len(last.buffer) = 12
  /\ last.ack \in WireAcks
  /\ last.ack.fragment_no_ >= 256
  /\ last.ack.avg_delay_ >= 16777216
  /\ AckPacket_to_string(last.ack) = last.buffer

\* C13 as stated: after an incoming frame has accepted a collection of
\* fragments, in whatever order, complete() tells whether the collection
\* fills every slot and partial_frame() is the payloads of slots 0..k-1, k the
\* first slot the collection does not fill, whichever of the collection's
\* fragments for a slot one takes: both are functions of the collection, not
\* of the order of arrival.
C13_OrderIndependent ==
  inc # <<>> =>
    LET f == inc[1]
        k == FilledPrefix(fed)
    IN  /\ complete(f) <=> FilledSlots(fed) = 0..(f.fragments_in_this_frame_ - 1)
        /\ \A g \in SlotChoices(fed, k) :
             partial_frame(f) = Flatten([ i \in 1..k |-> g[i - 1].payload_ ])

\* C13 amended: complete() is a function of the slots the accepted collection
\* fills, for every order of arrival; partial_frame() is one when no two
\* fragments of the collection belong in one slot with different payloads.
C13_OrderIndependentNoConflict ==
  inc # <<>> =>
    LET f == inc[1]
        k == FilledPrefix(fed)
    IN  /\ complete(f) <=> FilledSlots(fed) = 0..(f.fragments_in_this_frame_ - 1)
        /\ ConflictFree(fed) =>
             \A g \in SlotChoices(fed, k) :
               partial_frame(f) = Flatten([ i \in 1..k |-> g[i - 1].payload_ ])

\* C13 witness: an incoming frame of three slots was created from fragment 2
\* and then given fragment 0; slot 1 is missing, partial_frame() is the
\* payload of fragment 0
C13_Witness ==
  /\ inc # <<>> /\ out # <<>>
  /\ Len(inc[1].fragments_) = 3
  /\ fed \subseteq Fragments
  /\ FilledSlots(fed) = {0, 2}
  /\ last.op = "add_packet" /\ last.on = "inc" /\ last.err = NoError
  /\ last.packet.fragment_no_ = 0
  /\ partial_frame(inc[1]) = out[1].fragments_[1].payload_

\* C14: send() on the frame the outgoing constructor built, of N fragments,
\* throws nothing and hands the socket exactly N datagrams: datagram i is
\* to_string() of the fragment with fragment_no i, for i = 0..N-1 in that
\* order, and carries fragments_in_this_frame = N; the frame is as before.
C14_SendInOrder ==
  [][ (last'.op = "send" /\ last'.on = "out") =>
        LET fragments == out[1].fragments_
            N == Len(fragments)
        IN  /\ out' = out
            /\ inc' = inc
            /\ last'.err = NoError
            /\ Len(last'.sent) = N
            /\ \A i \in 0..(N - 1) :
                 /\ fragments[i + 1].fragment_no_ = i
                 /\ fragments[i + 1].fragments_in_this_frame_ = N
                 /\ last'.sent[i + 1] = to_string(fragments[i + 1])
                 /\ WireField16(last'.sent[i + 1], 6) = i
                 /\ WireField16(last'.sent[i + 1], 8) = N ]_vars

\* C14 witness: send() on an outgoing frame of three fragments just handed
\* the socket three datagrams
C14_Witness ==
  /\ out # <<>>
  /\ Len(out[1].fragments_) = 3
  /\ last.op = "send" /\ last.on = "out" /\ last.err = NoError
  /\ Len(last.sent) = 3
  /\ WireField16(last.sent[3], 6) = 2

\* C15: completion is stable.  No step makes a valid slot invalid, changes
\* the number of slots or increases remaining_fragments_; and once
\* remaining_fragments_ is 0 every later step, add_packet included, leaves
\* complete() true and frame() returning the same bytes.
C15_CompletionStable ==
  [][ \A on \in { "out", "inc" } :
        Target(on) # <<>> =>
          /\ Target(on)' # <<>>
          /\ LET f == Target(on)[1]
                 g == Target(on)'[1]
             IN  /\ Len(g.fragments_) = Len(f.fragments_)
                 /\ g.remaining_fragments_ <= f.remaining_fragments_
                 /\ \A i \in 1..Len(f.fragments_) :
                      f.fragments_[i].valid_ => g.fragments_[i].valid_
                 /\ complete(f) => (complete(g) /\ frame(g) = frame(f)) ]_vars

\* C15 witness: a complete incoming frame of three slots was just given,
\* without error, a fragment with another payload than the one its slot holds
C15_Witness ==
  /\ inc # <<>>
  /\ Len(inc[1].fragments_) = 3
  /\ complete(inc[1])
  /\ last.op = "add_packet" /\ last.on = "inc" /\ last.err = NoError
  /\ inc[1].fragments_[last.packet.fragment_no_ + 1].payload_ # last.packet.payload_
  /\ frame(inc[1]).ret = whole_frame

C17_AtLeastOneFragment ==
  last.op = "outgoing" =>
    IF last.buffer = <<>>
    THEN /\ last.err = Aborted
         /\ out = <<>>
    ELSE /\ last.err = NoError
         /\ out # <<>>
         /\ Len(out[1].fragments_) >= 1
         /\ Len(last.buffer) <= MAXIMUM_PAYLOAD =>
              /\ Len(out[1].fragments_) = 1
              /\ out[1].fragments_[1].payload_ = last.buffer
              /\ out[1].fragments_[1].time_to_next_ = time_to_next_frame

\* C17 failing input: the outgoing constructor was given an empty buffer,
\* met no assert and left a frame of zero fragments
C17_Reached ==
  /\ last.op = "outgoing"
  /\ last.buffer = <<>>
  /\ last.err = NoError
  /\ out # <<>>
  /\ out[1].fragments_ = <<>>

\* C18: outgoing construction of a buffer that is not empty ends with the
\* frame's fragments_in_this_frame_ equal to the number of fragments built,
\* every fragment's fragment_no_ below it (so that no assert() ends the
\* construction), no slot missing and remaining_fragments_ 0; and the
\* fragment built last, like each before it, has its index in fragments_ as
\* fragment_no_: the 16-bit counter and field hold these values unwrapped.
C18_CountsAgree ==
  /\ split.pc # "aborted"
  /\ split.count > 0 =>
       /\ split.back_fragment_no = split.count - 1
       /\ split.highest_fragment_no = split.count - 1
  /\ SplitBuilt =>
       /\ split.count >= 1
       /\ split.fragments_in_this_frame_ = split.count
       /\ split.highest_fragment_no < split.fragments_in_this_frame_
       /\ split.remaining_fragments_ = 0

\* C18 failing input: a buffer of 65536 payload caps was split into 65536
\* fragments and the construction ended with fragments_in_this_frame_ 0
C18_Reached ==
  /\ split.pc = "done"
  /\ split.size = Uint16 * MAXIMUM_PAYLOAD
  /\ split.count = Uint16
  /\ split.fragments_in_this_frame_ = 0
  /\ split.highest_fragment_no = Uint16 - 1

\* C19: the splitting loop ends for every buffer that is not empty.  Each
\* iteration increases next_fragment_start, which stays at most the size of
\* the buffer, and the loop is left exactly when next_fragment_start is that
\* size.
C19_OffsetIncreases ==
  [][ /\ split'.count > split.count =>
           /\ split'.next_fragment_start > split.next_fragment_start
           /\ split'.next_fragment_start <= split.size
      /\ split'.pc \in { "done", "aborted" } =>
           split.next_fragment_start = split.size ]_vars

\* C19 failing input: on a buffer longer than 65536 payload caps the counter
\* has wrapped, and the loop, 65537 fragments built, is back at the offset of
\* the second fragment with the condition still true
C19_Reached ==
  /\ split.pc = "loop"
  /\ split.size > Uint16 * MAXIMUM_PAYLOAD
  /\ split.count = Uint16 + 1
  /\ split.next_fragment_start = MAXIMUM_PAYLOAD
  /\ split.next_fragment_start < split.size

\* C1, on buffers of any length: the fragments the outgoing constructor
\* built can be fed to an incoming frame in any order, the frame being
\* created from the first one delivered; so the incoming constructor accepts
\* the fragment built last.
C1_SplitThenReceive ==
  split.pc = "received" => split.err = NoError

\* C1 failing input: a buffer of 65536 payload caps was split with assert()
\* compiled out and the incoming constructor refused the fragment built last
C1_Reached ==
  /\ split.pc = "received"
  /\ ndebug
  /\ split.size = Uint16 * MAXIMUM_PAYLOAD
  /\ split.count = Uint16
  /\ ErrorKind(split.err) = "ProtocolMismatch"

\* C7, on buffers of any length: the outgoing constructor ends without a
\* failed assert() with ceil(len / cap) fragments, never building more, and
\* the fragment at index i carries the bytes [i * cap, min((i + 1) * cap, len)).
C7_SplitCount ==
  /\ split.pc # "aborted"
  /\ split.count <= CeilDiv(split.size, MAXIMUM_PAYLOAD)
  /\ SplitBuilt => split.count = CeilDiv(split.size, MAXIMUM_PAYLOAD)
  /\ split.count > 0 =>
       /\ split.back_first_byte = (split.count - 1) * MAXIMUM_PAYLOAD
       /\ split.back_first_byte + split.back_length =
            Min(split.count * MAXIMUM_PAYLOAD, split.size)

\* C7 failing input: a buffer of 65536 payload caps was split into 65536
\* fragments and the constructor ended in a failed assert()
C7_Reached ==
  /\ split.pc = "aborted"
  /\ ~ ndebug
  /\ split.size = Uint16 * MAXIMUM_PAYLOAD
  /\ split.count = Uint16
  /\ split.next_fragment_start = split.size

\* C14, on frames of any number of fragments: send() on the frame the
\* outgoing constructor built, of N fragments, throws nothing and hands the
\* socket N datagrams, each carrying fragments_in_this_frame = N.
C14_SplitSend ==
  split.pc = "sent" =>
    /\ split.err = NoError
    /\ split.sent = split.count
    /\ split.fragments_in_this_frame_ = split.count

\* C14 failing input: send() on the outgoing frame of 65536 fragments threw
\* and handed the socket nothing
C14_Reached ==
  /\ split.pc = "sent"
  /\ split.count = Uint16
  /\ ErrorKind(split.err) = "IncompleteFrame"
  /\ split.sent = 0

====
